---- MODULE Spec2Model ----
(***************************************************************************)
(* Host harnesses for Go WASI reactor binaries: the JavaScript harness     *)
(* (js-harness/src/index.ts) and the Go harness (wazero-go/reactor.go).    *)
(* One guest instance is created and then driven by two callers that may   *)
(* share it.  The guest is a black box: each invocation of an entry point  *)
(* either traps or returns, and go_tick returns any 32-bit tick result.    *)
(* Inside an invocation the guest calls the imports of createMinimalWASI   *)
(* (the shim), which read and write the guest's linear memory byte by      *)
(* byte; the second part of the module looks inside such an invocation,    *)
(* also on a memory the guest grows.  A further specification puts runSync *)
(* and runAsync side by side on a guest whose tick results are scripted.   *)
(***************************************************************************)
EXTENDS Integers, Sequences, FiniteSets, TLC

\* Largest timer delay (ms) the guest's go_tick returns in the model.
MaxMs == 2
\* Invocation counters saturate at this value.
MaxCalls == 2
\* The guest's linear memory has this many bytes.
MemSize == 24
\* The number of times the guest grows its memory.
MaxGrow == 2
\* The length of the longest sequence of tick results a guest is given.
MaxTicks == 3

\* The callers that hold a reference to the reactor.
Callers == {"A", "B"}

\* GoReactorExports: the names a reactor module is expected to export.
ExportNames == {"_initialize", "go_start_main", "go_tick", "memory"}

\* LoopResult: Idle = -1, Ready = 0, > 0 milliseconds until the next timer.
LoopIdle == -1
LoopReady == 0

\* The values go_tick may return: the three documented kinds and an
\* undocumented negative value.
TickResults == (-2)..MaxMs

\* What an invocation of a guest entry point can do besides returning.
GuestFaults == {"none", "trap"}

\* What the last invocation of a guest entry point by an operation did: it
\* returned, it trapped, or the guest called proc_exit(code) in it.
NoFault == [kind |-> "none", entry |-> "", code |-> 0]

Trap(e) == [kind |-> "trap", entry |-> e, code |-> 0]

ProcExit(e, k) == [kind |-> "exit", entry |-> e, code |-> k]

\* The exit codes the guest passes to proc_exit in the model.
ExitCodes == {0, 1}

\* What an invocation of go_tick under the JavaScript harness can do.
TickFaults ==
    {NoFault, Trap("go_tick")} \cup {ProcExit("go_tick", k) : k \in ExitCodes}

\* A variant of ExitSignal whose message does not depend on the code.
ExitSignalNoCode(code) == "exit(0)"

\* proc_exit: throw new Error(`exit(${code})`); the message of the error.
ExitSignal(code) == "exit(" \o ToString(code) \o ")"

\* The operations that run the loop to completion.
RunOps == {"runSync", "runAsync", "Run", "RunWithCallback"}

VARIABLES
    host,        \* "js" or "go": which harness hosts the instance
    exports,     \* the set of names the instantiated module exports
    options,     \* ReactorOptions: which optional callbacks are configured
    cpc,         \* position inside createReactor / NewReactor
    createErr,   \* the error createReactor / NewReactor failed with
    memory,      \* createMinimalWASI's captured memory reference
    mainStarted, \* Reactor.mainStarted (JS)
    nInitialize, \* invocations of the guest's _initialize
    nStartMain,  \* invocations of the guest's go_start_main
    nTick,       \* invocations of the guest's go_tick
    drv,         \* per caller: the operation in progress and its locals
    active,      \* JS: the caller whose synchronous code is on the stack
    microtasks,  \* JS: the queue of promise continuations
    hostWork,    \* JS: other host work on the event loop (a due timer callback)
    buffer,      \* memory.buffer: the bytes of the guest's linear memory
    generation,  \* how many ArrayBuffers memory.buffer was before this one
    args,        \* createMinimalWASI's args: strings, as code points
    env,         \* createMinimalWASI's env: <<key, value>> in insertion order
    stdout,      \* the texts the stdout sink was called with, in order
    stderr,      \* the texts the stderr sink was called with, in order
    call,        \* the guest's last call of a shim import, and its result
    shimPc,      \* where the guest is with its shim calls
    script       \* the tick results the guest is going to return, in order;
                 \* <<>> for a guest that returns what it likes

\* The harness state.
schedVars == <<host, exports, options, cpc, createErr, memory, mainStarted,
               nInitialize, nStartMain, nTick, drv, active, microtasks,
               hostWork>>

\* The state of createMinimalWASI's shim and of the guest.
shimVars == <<buffer, generation, args, env, stdout, stderr, call, shimPc,
              script>>

vars == <<host, exports, options, cpc, createErr, memory, mainStarted,
          nInitialize, nStartMain, nTick, drv, active, microtasks, hostWork,
          buffer, generation, args, env, stdout, stderr, call, shimPc,
          script>>

Addresses == 0..(MemSize - 1)

\* No shim call has been made.
NoCall ==
    [name |-> "none", params |-> <<>>, before |-> <<>>, threw |-> FALSE,
     ret |-> 0, hostBytes |-> <<>>, generation |-> 0, view |-> 0]

\* The harness part of the model does not look at the guest's shim calls.
ShimOff ==
    /\ buffer = [a \in Addresses |-> 0]
    /\ generation = 0
    /\ args = <<>>
    /\ env = <<>>
    /\ stdout = <<>>
    /\ stderr = <<>>
    /\ call = NoCall
    /\ shimPc = "off"
    /\ script = <<>>

Inc(n) == IF n < MaxCalls THEN n + 1 ELSE n

IdleDriver ==
    [op |-> "none", pc |-> "idle", result |-> <<>>, timer |-> 0,
     outcome |-> "none", cb |-> FALSE, cancelled |-> FALSE,
     cancelledInWait |-> FALSE, fault |-> NoFault, cbAhead |-> 0,
     calls |-> <<>>]

\* The record of a finished operation: what it returned (outcome, and the
\* tick result where one is returned or was the last one seen).
Finished(d, out, res) ==
    [IdleDriver EXCEPT !.op = d.op, !.pc = "done", !.outcome = out,
                       !.result = res, !.cancelledInWait = d.cancelledInWait,
                       !.fault = d.fault, !.cbAhead = d.cbAhead,
                       !.calls = d.calls]

\* The record of an operation that has just invoked e (an entry point of the
\* guest, or the onTick callback): the invocations of an operation are
\* listed for a guest with a script.
Recorded(d, e) ==
    IF script = <<>> THEN d ELSE [d EXCEPT !.calls = Append(@, e)]

\* The record of an operation that begins by invoking e.
Begun(e) == Recorded(IdleDriver, e)

\* The run's count of onTick invocations not yet followed by a go_tick
\* invocation (kept for runs with a callback), after one more of either.
AfterOnTick(d) ==
    Recorded([d EXCEPT !.cbAhead = IF @ < 2 THEN @ + 1 ELSE @], "onTick")

AfterTick(d) ==
    Recorded(IF d.cb THEN [d EXCEPT !.cbAhead = IF @ > -1 THEN @ - 1 ELSE @]
             ELSE d, "go_tick")

\* The record with the fault f of the guest invocation just made.
Faulted(d, f) == [d EXCEPT !.fault = f]

Init ==
    /\ host \in {"js", "go"}
    /\ exports \in SUBSET ExportNames
    /\ options \in [setMemory : BOOLEAN, onTick : BOOLEAN]
    \* NewReactor takes no callbacks and never looks the memory export up.
    /\ (host = "go" => /\ options = [setMemory |-> FALSE, onTick |-> FALSE]
                       /\ "memory" \in exports)
    /\ cpc = "instantiated"
    /\ createErr = ""
    /\ memory = "null"
    /\ mainStarted = FALSE
    /\ nInitialize = 0
    /\ nStartMain = 0
    /\ nTick = 0
    /\ drv = [c \in Callers |-> IdleDriver]
    /\ active = "none"
    /\ microtasks = <<>>
    /\ hostWork = "none"
    /\ ShimOff

(***************************************************************************)
(* Instantiation: createReactor (JS) and NewReactor (Go).                  *)
(***************************************************************************)

\* A variant of ValidateExports that looks for go_tick before go_start_main.
ValidateExportsTickFirst(ex) ==
    IF "_initialize" \notin ex THEN "_initialize"
    ELSE IF "go_tick" \notin ex THEN "go_tick"
    ELSE IF "go_start_main" \notin ex THEN "go_start_main"
    ELSE ""

\* createReactor's export validation: the name the thrown error
\* carries, or "" when the three functions are exported.
ValidateExports(ex) ==
    IF "_initialize" \notin ex THEN "_initialize"
    ELSE IF "go_start_main" \notin ex THEN "go_start_main"
    ELSE IF "go_tick" \notin ex THEN "go_tick"
    ELSE ""

\* NewReactor's lookups of the exported functions, in the same way.
LookupExports(ex) ==
    IF "_initialize" \notin ex THEN "_initialize"
    ELSE IF "go_start_main" \notin ex THEN "go_start_main"
    ELSE IF "go_tick" \notin ex THEN "go_tick"
    ELSE ""

\* The value of exports.memory.
ExportedMemory == IF "memory" \in exports THEN "memory" ELSE "undefined"

createReactorValidate ==
    /\ host = "js"
    /\ cpc = "instantiated"
    /\ LET e == ValidateExports(exports)
       IN  IF e # ""
           THEN cpc' = "failed" /\ createErr' = e
           ELSE cpc' = "validated" /\ UNCHANGED createErr
    /\ UNCHANGED <<shimVars, host, exports, options, memory, mainStarted, nInitialize,
                   nStartMain, nTick, drv, active, microtasks, hostWork>>

\* options.setMemory?.(exports.memory), with createMinimalWASI's setMemory
\* as the callback.
createReactorSetMemory ==
    /\ host = "js"
    /\ cpc = "validated"
    /\ memory' = IF options.setMemory THEN ExportedMemory ELSE memory
    /\ cpc' = "memorySet"
    /\ UNCHANGED <<shimVars, host, exports, options, createErr, mainStarted, nInitialize,
                   nStartMain, nTick, drv, active, microtasks, hostWork>>

\* A variant of createReactorInitialize that does not wait for setMemory.
createReactorInitializeEarly ==
    /\ host = "js"
    /\ cpc \in {"validated", "memorySet"}
    /\ nInitialize' = Inc(nInitialize)
    /\ cpc' = "done"
    /\ UNCHANGED <<shimVars, host, exports, options, createErr, memory, mainStarted,
                   nStartMain, nTick, drv, active, microtasks, hostWork>>

\* exports._initialize(); return new Reactor(exports, options).
createReactorInitialize ==
    /\ host = "js"
    /\ cpc = "memorySet"
    /\ nInitialize' = Inc(nInitialize)
    /\ \E f \in GuestFaults :
          IF f = "trap"
          THEN cpc' = "failed" /\ createErr' = "throw"
          ELSE cpc' = "done" /\ UNCHANGED createErr
    /\ UNCHANGED <<shimVars, host, exports, options, memory, mainStarted,
                   nStartMain, nTick, drv, active, microtasks, hostWork>>

NewReactorLookup ==
    /\ host = "go"
    /\ cpc = "instantiated"
    /\ LET e == LookupExports(exports)
       IN  IF e # ""
           THEN cpc' = "failed" /\ createErr' = e
           ELSE cpc' = "validated" /\ UNCHANGED createErr
    /\ UNCHANGED <<shimVars, host, exports, options, memory, mainStarted, nInitialize,
                   nStartMain, nTick, drv, active, microtasks, hostWork>>

\* initialize.Call(ctx)
NewReactorInitialize ==
    /\ host = "go"
    /\ cpc = "validated"
    /\ nInitialize' = Inc(nInitialize)
    /\ \E f \in GuestFaults :
          IF f = "trap"
          THEN cpc' = "failed" /\ createErr' = "call _initialize: err"
          ELSE cpc' = "done" /\ UNCHANGED createErr
    /\ UNCHANGED <<shimVars, host, exports, options, memory, mainStarted,
                   nStartMain, nTick, drv, active, microtasks, hostWork>>


(***************************************************************************)
(* The JavaScript harness: class Reactor.  JavaScript is single-threaded:  *)
(* a caller's synchronous code runs while active names it, and a promise   *)
(* continuation runs only when the stack is empty; a timer callback        *)
(* (a macrotask) runs only when, in addition, no microtask is queued.      *)
(***************************************************************************)

ReactorReady(c) ==
    /\ cpc = "done"
    /\ drv[c].pc \in {"idle", "done"}

\* A variant of NextIteration that goes to the tick without the callback.
NextIterationNoCallback(cb) == "tick"

\* The first position of a loop iteration: this.onTick?.() when configured.
NextIteration(cb) == IF cb THEN "cb" ELSE "tick"

\* startMain's effect on the reactor; f is what the guest's go_start_main
\* does.  When it throws, the assignment after the call is not reached.
startMainEffect(f) ==
    IF mainStarted
    THEN UNCHANGED <<mainStarted, nStartMain>>
    ELSE /\ nStartMain' = Inc(nStartMain)
         /\ mainStarted' = (f = "none")

startMainThrows(f) == ~mainStarted /\ f = "trap"

\* The record of an operation that begins with this.startMain(), which
\* invokes go_start_main unless mainStarted.
startMainBegun == IF mainStarted THEN IdleDriver ELSE Begun("go_start_main")

startMain(c) ==
    /\ host = "js"
    /\ ReactorReady(c)
    /\ active = "none"
    /\ \E f \in GuestFaults :
          /\ startMainEffect(f)
          /\ drv' = [drv EXCEPT ![c] =
                [startMainBegun EXCEPT !.op = "startMain", !.pc = "done",
                    !.outcome = IF startMainThrows(f) THEN "throw" ELSE "ok",
                    !.fault = IF startMainThrows(f) THEN Trap("go_start_main")
                              ELSE NoFault]]
    /\ UNCHANGED <<shimVars, host, exports, options, cpc, createErr, memory,
                   nInitialize, nTick, active, microtasks, hostWork>>

\* The values go_tick may return when it does f: none matters when it
\* does not return.
TickResultsOn(f) == IF f.kind = "none" THEN TickResults ELSE {LoopIdle}

\* What a call of loopOnce ends with when go_tick did f: "ok" when it
\* returned; the exception otherwise, which nothing in the harness catches.
TickOutcome(f) ==
    IF f.kind = "none" THEN "ok"
    ELSE IF f.kind = "exit" THEN ExitSignal(f.code)
    ELSE "throw"

\* loopOnce called directly: go_tick is invoked, whatever came before.
loopOnce(c) ==
    /\ host = "js"
    /\ ReactorReady(c)
    /\ active = "none"
    /\ nTick' = Inc(nTick)
    /\ \E f \in TickFaults : \E r \in TickResultsOn(f) :
          drv' = [drv EXCEPT ![c] =
                [Begun("go_tick") EXCEPT !.op = "loopOnce", !.pc = "done",
                    !.result = IF f.kind = "none" THEN <<r>> ELSE <<>>,
                    !.outcome = TickOutcome(f),
                    !.fault = f]]
    /\ UNCHANGED <<shimVars, host, exports, options, cpc, createErr, memory, mainStarted,
                   nInitialize, nStartMain, active, microtasks, hostWork>>

\* The call of runSync / runAsync up to the loop: this.startMain().
runCall(c, o) ==
    /\ host = "js"
    /\ ReactorReady(c)
    /\ active = "none"
    /\ \E f \in GuestFaults :
          /\ startMainEffect(f)
          /\ IF startMainThrows(f)
             THEN /\ drv' = [drv EXCEPT ![c] =
                        [startMainBegun EXCEPT !.op = o, !.pc = "done",
                                           !.outcome = "throw",
                                           !.fault = Trap("go_start_main")]]
                  /\ UNCHANGED active
             ELSE /\ drv' = [drv EXCEPT ![c] =
                        [startMainBegun EXCEPT !.op = o, !.cb = options.onTick,
                                           !.pc = NextIteration(options.onTick)]]
                  /\ active' = c
    /\ UNCHANGED <<shimVars, host, exports, options, cpc, createErr, memory,
                   nInitialize, nTick, microtasks, hostWork>>

runSync(c) == runCall(c, "runSync")

runAsync(c) == runCall(c, "runAsync")

\* this.onTick?.()
onTickCall(c) ==
    /\ host = "js"
    /\ active = c
    /\ drv[c].pc = "cb"
    /\ drv' = [drv EXCEPT ![c] = [AfterOnTick(@) EXCEPT !.pc = "tick"]]
    /\ UNCHANGED <<shimVars, host, exports, options, cpc, createErr, memory, mainStarted,
                   nInitialize, nStartMain, nTick, active, microtasks, hostWork>>

\* A variant of runSyncBranch that returns on Ready as it does on Idle.
runSyncBranchReadyEnds(r) ==
    IF r = LoopIdle \/ r = LoopReady THEN "done"
    ELSE IF r > 0 THEN "spin"
    ELSE "next"

\* runSync's branches on the tick result r: where the loop goes next.
runSyncBranch(r) ==
    IF r = LoopIdle THEN "done"
    ELSE IF r > 0 THEN "spin"
    ELSE "next"

\* A variant of runAsyncBranch that treats Idle like Ready.
runAsyncBranchIdleAsReady(r) ==
    IF r = LoopIdle \/ r = LoopReady THEN "yield"
    ELSE IF r > 0 THEN "wait"
    ELSE "next"

\* A variant of runAsyncBranch that does not wait on a timer result.
runAsyncBranchNoWait(r) ==
    IF r = LoopIdle THEN "done"
    ELSE IF r = LoopReady THEN "yield"
    ELSE "next"

\* runAsync's branches on the tick result r.
runAsyncBranch(r) ==
    IF r = LoopIdle THEN "done"
    ELSE IF r = LoopReady THEN "yield"
    ELSE IF r > 0 THEN "wait"
    ELSE "next"

\* const result = this.loopOnce() inside a run loop, and the branch taken.
runTick(c, o, b, r, f) ==
    /\ host = "js"
    /\ active = c
    /\ drv[c].op = o
    /\ drv[c].pc = "tick"
    /\ nTick' = Inc(nTick)
    /\ IF f.kind # "none"
       THEN /\ drv' = [drv EXCEPT ![c] =
                  Finished(Faulted(AfterTick(@), f), TickOutcome(f), <<>>)]
            /\ active' = "none"
            /\ UNCHANGED microtasks
       ELSE /\ drv' = [drv EXCEPT ![c] =
                  IF b = "done"
                  THEN Finished(AfterTick(@), "ok", <<r>>)
                  ELSE [AfterTick(@) EXCEPT
                     !.result = <<r>>,
                     !.pc = IF b = "next" THEN NextIteration(drv[c].cb) ELSE b,
                     !.timer = IF b \in {"wait", "spin"} THEN r ELSE 0]]
            /\ active' = IF b \in {"done", "yield", "wait"} THEN "none" ELSE c
            /\ microtasks' = IF b = "yield" THEN Append(microtasks, c)
                             ELSE microtasks
    /\ UNCHANGED <<shimVars, host, exports, options, cpc, createErr, memory, mainStarted,
                   nInitialize, nStartMain, hostWork>>

runSyncTick(c) ==
    \E f \in TickFaults : \E r \in TickResultsOn(f) :
        runTick(c, "runSync", runSyncBranch(r), r, f)

runAsyncTick(c) ==
    \E f \in TickFaults : \E r \in TickResultsOn(f) :
        runTick(c, "runAsync", runAsyncBranch(r), r, f)

\* runSync's busy wait: while (Date.now() - start < result) {}
runSyncSpin(c) ==
    /\ host = "js"
    /\ active = c
    /\ drv[c].pc = "spin"
    /\ drv[c].timer = 0
    /\ drv' = [drv EXCEPT ![c].pc = NextIteration(drv[c].cb),
                          ![c].result = <<>>]
    /\ UNCHANGED <<shimVars, host, exports, options, cpc, createErr, memory, mainStarted,
                   nInitialize, nStartMain, nTick, active, microtasks, hostWork>>

\* The default wait: setTimeout(resolve, ms) fires and resolves the promise
\* runAsync awaits; the continuation is queued as a microtask.
waitResolve(c) ==
    /\ host = "js"
    /\ active = "none"
    /\ microtasks = <<>>
    /\ drv[c].pc = "wait"
    /\ drv[c].timer = 0
    /\ drv' = [drv EXCEPT ![c].pc = "resume"]
    /\ microtasks' = Append(microtasks, c)
    /\ UNCHANGED <<shimVars, host, exports, options, cpc, createErr, memory, mainStarted,
                   nInitialize, nStartMain, nTick, active, hostWork>>

\* The event loop runs the next promise continuation: runAsync resumes
\* after await Promise.resolve() or after await wait(result).
RunMicrotask ==
    /\ host = "js"
    /\ active = "none"
    /\ microtasks # <<>>
    /\ LET c == Head(microtasks)
       IN  /\ drv' = [drv EXCEPT ![c].pc = NextIteration(drv[c].cb),
                                 ![c].timer = 0, ![c].result = <<>>]
           /\ active' = c
    /\ microtasks' = Tail(microtasks)
    /\ UNCHANGED <<shimVars, host, exports, options, cpc, createErr, memory, mainStarted,
                   nInitialize, nStartMain, nTick, hostWork>>

\* Other host work becomes pending on the event loop: a host timer is due.
HostWorkDue ==
    /\ host = "js"
    /\ cpc = "done"
    /\ hostWork = "none"
    /\ hostWork' = "due"
    /\ UNCHANGED <<shimVars, host, exports, options, cpc, createErr, memory, mainStarted,
                   nInitialize, nStartMain, nTick, drv, active, microtasks>>

\* The event loop runs the due host timer callback: a macrotask, taken only
\* with an empty stack and an empty microtask queue.
HostWorkRuns ==
    /\ host = "js"
    /\ hostWork = "due"
    /\ active = "none"
    /\ microtasks = <<>>
    /\ hostWork' = "none"
    /\ UNCHANGED <<shimVars, host, exports, options, cpc, createErr, memory, mainStarted,
                   nInitialize, nStartMain, nTick, drv, active, microtasks>>

\* One millisecond passes: every running timer has one less to go.
Elapse ==
    /\ \E c \in Callers : drv[c].timer > 0 /\ drv[c].pc \in {"wait", "spin"}
    /\ drv' = [c \in Callers |->
                 IF drv[c].timer > 0 /\ drv[c].pc \in {"wait", "spin"}
                 THEN [drv[c] EXCEPT !.timer = @ - 1]
                 ELSE drv[c]]
    /\ UNCHANGED <<shimVars, host, exports, options, cpc, createErr, memory, mainStarted,
                   nInitialize, nStartMain, nTick, active, microtasks, hostWork>>


(***************************************************************************)
(* The Go harness: type Reactor.  Callers are goroutines: their steps      *)
(* interleave freely, and an invocation of go_tick takes time (it begins   *)
(* and later returns).  Each Run has its own context, which the            *)
(* environment may cancel at any moment of the run.                        *)
(***************************************************************************)

\* StartMain called directly: goStartMain.Call(ctx), unguarded.
StartMain(c) ==
    /\ host = "go"
    /\ ReactorReady(c)
    /\ nStartMain' = Inc(nStartMain)
    /\ \E f \in GuestFaults :
          drv' = [drv EXCEPT ![c] =
                [Begun("go_start_main") EXCEPT !.op = "StartMain", !.pc = "done",
                    !.outcome = IF f = "trap" THEN "err" ELSE "ok",
                    !.fault = IF f = "trap" THEN Trap("go_start_main")
                              ELSE NoFault]]
    /\ UNCHANGED <<shimVars, host, exports, options, cpc, createErr, memory, mainStarted,
                   nInitialize, nTick, active, microtasks, hostWork>>

\* LoopOnce called directly: goTick.Call(ctx) begins.
LoopOnce(c) ==
    /\ host = "go"
    /\ ReactorReady(c)
    /\ nTick' = Inc(nTick)
    /\ drv' = [drv EXCEPT ![c] =
                [Begun("go_tick") EXCEPT !.op = "LoopOnce", !.pc = "inTick"]]
    /\ UNCHANGED <<shimVars, host, exports, options, cpc, createErr, memory, mainStarted,
                   nInitialize, nStartMain, active, microtasks, hostWork>>

\* goTick.Call(ctx) returns to a direct LoopOnce.
LoopOnceReturn(c) ==
    /\ host = "go"
    /\ drv[c].op = "LoopOnce"
    /\ drv[c].pc = "inTick"
    /\ \E f \in GuestFaults, r \in TickResults :
          drv' = [drv EXCEPT ![c] =
                IF f = "trap"
                THEN Finished(Faulted(@, Trap("go_tick")), "err", <<LoopIdle>>)
                ELSE Finished(@, "ok", <<r>>)]
    /\ UNCHANGED <<shimVars, host, exports, options, cpc, createErr, memory, mainStarted,
                   nInitialize, nStartMain, nTick, active, microtasks, hostWork>>

\* A variant of RunCall that enters the loop although StartMain failed.
RunCallIgnoreError(c, o, cb) ==
    /\ host = "go"
    /\ ReactorReady(c)
    /\ nStartMain' = Inc(nStartMain)
    /\ \E f \in GuestFaults :
          drv' = [drv EXCEPT ![c] =
                [Begun("go_start_main") EXCEPT !.op = o, !.pc = "top", !.cb = cb,
                    !.fault = IF f = "trap" THEN Trap("go_start_main")
                              ELSE NoFault]]
    /\ UNCHANGED <<shimVars, host, exports, options, cpc, createErr, memory, mainStarted,
                   nInitialize, nTick, active, microtasks, hostWork>>

\* The call of Run / RunWithCallback up to the loop: r.StartMain(ctx).
\* cb tells whether onTick is non-nil.
RunCall(c, o, cb) ==
    /\ host = "go"
    /\ ReactorReady(c)
    /\ nStartMain' = Inc(nStartMain)
    /\ \E f \in GuestFaults :
          drv' = [drv EXCEPT ![c] =
                IF f = "trap"
                THEN [Begun("go_start_main") EXCEPT !.op = o, !.pc = "done",
                                        !.outcome = "start main: err",
                                        !.fault = Trap("go_start_main")]
                ELSE [Begun("go_start_main") EXCEPT !.op = o, !.pc = "top",
                                                    !.cb = cb]]
    /\ UNCHANGED <<shimVars, host, exports, options, cpc, createErr, memory, mainStarted,
                   nInitialize, nTick, active, microtasks, hostWork>>

Run(c) == RunCall(c, "Run", FALSE)

RunWithCallback(c) == \E cb \in BOOLEAN : RunCall(c, "RunWithCallback", cb)

\* A variant of RunSelect without the check of ctx.Done().
RunSelectNoCheck(c) ==
    /\ host = "go"
    /\ drv[c].pc = "top"
    /\ drv' = [drv EXCEPT ![c].pc = NextIteration(drv[c].cb),
                          ![c].result = <<>>]
    /\ UNCHANGED <<shimVars, host, exports, options, cpc, createErr, memory, mainStarted,
                   nInitialize, nStartMain, nTick, active, microtasks, hostWork>>

\* The top of the loop: select { case <-ctx.Done(): return ctx.Err(); default: }
RunSelect(c) ==
    /\ host = "go"
    /\ drv[c].pc = "top"
    /\ drv' = [drv EXCEPT ![c] =
            IF drv[c].cancelled
            THEN Finished(@, "ctx.Err", <<>>)
            ELSE [@ EXCEPT !.pc = NextIteration(drv[c].cb), !.result = <<>>]]
    /\ UNCHANGED <<shimVars, host, exports, options, cpc, createErr, memory, mainStarted,
                   nInitialize, nStartMain, nTick, active, microtasks, hostWork>>

\* if onTick != nil { onTick() }
RunOnTick(c) ==
    /\ host = "go"
    /\ drv[c].pc = "cb"
    /\ drv' = [drv EXCEPT ![c] = [AfterOnTick(@) EXCEPT !.pc = "tick"]]
    /\ UNCHANGED <<shimVars, host, exports, options, cpc, createErr, memory, mainStarted,
                   nInitialize, nStartMain, nTick, active, microtasks, hostWork>>

\* r.LoopOnce(ctx) inside the loop: goTick.Call(ctx) begins.
RunLoopOnce(c) ==
    /\ host = "go"
    /\ drv[c].pc = "tick"
    /\ nTick' = Inc(nTick)
    /\ drv' = [drv EXCEPT ![c] = [AfterTick(@) EXCEPT !.pc = "inTick"]]
    /\ UNCHANGED <<shimVars, host, exports, options, cpc, createErr, memory, mainStarted,
                   nInitialize, nStartMain, active, microtasks, hostWork>>

\* The switch on the tick result r in Run / RunWithCallback.
RunBranch(r) ==
    IF r = LoopIdle THEN "done"
    ELSE IF r = LoopReady THEN "top"
    ELSE IF r > 0 THEN "wait"
    ELSE "top"

\* goTick.Call(ctx) returns inside the loop, and the switch is taken.
RunLoopOnceReturn(c) ==
    /\ host = "go"
    /\ drv[c].op \in {"Run", "RunWithCallback"}
    /\ drv[c].pc = "inTick"
    /\ \E f \in GuestFaults, r \in TickResults :
          LET b == RunBranch(r)
          IN  drv' = [drv EXCEPT ![c] =
                IF f = "trap"
                THEN Finished(Faulted(@, Trap("go_tick")), "loop once: err", <<>>)
                ELSE IF b = "done" THEN Finished(@, "ok", <<r>>)
                ELSE [@ EXCEPT !.pc = b, !.result = <<r>>,
                               !.timer = IF b = "wait" THEN r ELSE 0]]
    /\ UNCHANGED <<shimVars, host, exports, options, cpc, createErr, memory, mainStarted,
                   nInitialize, nStartMain, nTick, active, microtasks, hostWork>>

\* select { ... case <-timer.C: continue }
RunTimer(c) ==
    /\ host = "go"
    /\ drv[c].pc = "wait"
    /\ drv[c].timer = 0
    /\ drv' = [drv EXCEPT ![c].pc = "top", ![c].result = <<>>]
    /\ UNCHANGED <<shimVars, host, exports, options, cpc, createErr, memory, mainStarted,
                   nInitialize, nStartMain, nTick, active, microtasks, hostWork>>

\* select { case <-ctx.Done(): timer.Stop(); return ctx.Err() ... }
RunWaitCancelled(c) ==
    /\ host = "go"
    /\ drv[c].pc = "wait"
    /\ drv[c].cancelled
    /\ drv' = [drv EXCEPT ![c] = Finished(@, "ctx.Err", <<>>)]
    /\ UNCHANGED <<shimVars, host, exports, options, cpc, createErr, memory, mainStarted,
                   nInitialize, nStartMain, nTick, active, microtasks, hostWork>>

\* The environment cancels the context of c's run; cancelledInWait remembers
\* that the run was suspended in its timer wait at that moment.
Cancel(c) ==
    /\ host = "go"
    /\ drv[c].op \in {"Run", "RunWithCallback"}
    /\ drv[c].pc \notin {"idle", "done"}
    /\ ~drv[c].cancelled
    /\ drv' = [drv EXCEPT ![c].cancelled = TRUE,
                          ![c].cancelledInWait = (drv[c].pc = "wait")]
    /\ UNCHANGED <<shimVars, host, exports, options, cpc, createErr, memory, mainStarted,
                   nInitialize, nStartMain, nTick, active, microtasks, hostWork>>

(***************************************************************************)
(* The specification.                                                      *)
(***************************************************************************)

\* The steps of the JavaScript harness with the callers in C.
JsSteps(C) ==
    \/ createReactorValidate
    \/ createReactorSetMemory
    \/ createReactorInitialize
    \/ \E c \in C : startMain(c)
    \/ \E c \in C : loopOnce(c)
    \/ \E c \in C : runSync(c)
    \/ \E c \in C : runAsync(c)
    \/ \E c \in C : onTickCall(c)
    \/ \E c \in C : runSyncTick(c)
    \/ \E c \in C : runAsyncTick(c)
    \/ \E c \in C : runSyncSpin(c)
    \/ \E c \in C : waitResolve(c)
    \/ RunMicrotask
    \/ HostWorkDue
    \/ HostWorkRuns

JsNext == JsSteps(Callers)

GoNext ==
    \/ NewReactorLookup
    \/ NewReactorInitialize
    \/ \E c \in Callers : StartMain(c)
    \/ \E c \in Callers : LoopOnce(c)
    \/ \E c \in Callers : LoopOnceReturn(c)
    \/ \E c \in Callers : Run(c)
    \/ \E c \in Callers : RunWithCallback(c)
    \/ \E c \in Callers : RunSelect(c)
    \/ \E c \in Callers : RunOnTick(c)
    \/ \E c \in Callers : RunLoopOnce(c)
    \/ \E c \in Callers : RunLoopOnceReturn(c)
    \/ \E c \in Callers : RunTimer(c)
    \/ \E c \in Callers : RunWaitCancelled(c)
    \/ \E c \in Callers : Cancel(c)

Next == JsNext \/ GoNext \/ Elapse

Spec == Init /\ [][Next]_vars


\* The JavaScript harness alone, driven by one caller, with the event
\* loop's scheduling: the
\* running synchronous code continues, a queued microtask is run, a timer
\* that has expired fires; and a due host timer callback is run if the
\* event loop comes to pick a macrotask again and again (it is not passed
\* over for ever in favour of new host calls).
JsInit == Init /\ host = "js"

JsFairness ==
    /\ WF_vars(createReactorValidate)
    /\ WF_vars(createReactorSetMemory)
    /\ WF_vars(createReactorInitialize)
    /\ WF_vars(RunMicrotask)
    /\ SF_vars(HostWorkRuns)
    /\ WF_vars(Elapse)
    /\ WF_vars(onTickCall("A"))
    /\ WF_vars(runSyncTick("A"))
    /\ WF_vars(runAsyncTick("A"))
    /\ WF_vars(runSyncSpin("A"))
    /\ WF_vars(waitResolve("A"))

JsFairNext == JsSteps({"A"}) \/ Elapse

JsFairSpec == JsInit /\ [][JsFairNext]_vars /\ JsFairness

(***************************************************************************)
(* runSync and runAsync side by side: one caller on a fresh reactor whose  *)
(* guest returns the tick results of a script, and calls one of the two.   *)
(* The invocations the run makes are listed in its record.                 *)
(***************************************************************************)

\* The scripts: tick results 0 (Ready) and positive (a timer), then -1.
Scripts ==
    {s \o <<LoopIdle>> :
        s \in UNION {[1..n -> 0..MaxMs] : n \in 0..(MaxTicks - 1)}}

\* The number of go_tick invocations among the invocations cs.
TicksIn(cs) == Len(SelectSeq(cs, LAMBDA e : e = "go_tick"))

\* The guest has followed its script: no entry point trapped or exited, and
\* the tick result the run holds is the script's, at the place of the last
\* go_tick.
FollowsScript ==
    LET d == drv["A"]
    IN  /\ d.fault = NoFault
        /\ d.result # <<>> => /\ TicksIn(d.calls) \in 1..Len(script)
                              /\ d.result[1] = script[TicksIn(d.calls)]

\* A step of the harness on the guest with the script.
Scripted(step) == step /\ FollowsScript'

\* A reactor just created (mainStarted false, nothing invoked but
\* _initialize), with or without an onTick callback.
PairInit ==
    /\ host = "js"
    /\ exports = ExportNames
    /\ options \in [setMemory : {TRUE}, onTick : BOOLEAN]
    /\ cpc = "done"
    /\ createErr = ""
    /\ memory = "memory"
    /\ mainStarted = FALSE
    /\ nInitialize = 1
    /\ nStartMain = 0
    /\ nTick = 0
    /\ drv = [c \in Callers |-> IdleDriver]
    /\ active = "none"
    /\ microtasks = <<>>
    /\ hostWork = "none"
    /\ buffer = [a \in Addresses |-> 0]
    /\ generation = 0
    /\ args = <<>>
    /\ env = <<>>
    /\ stdout = <<>>
    /\ stderr = <<>>
    /\ call = NoCall
    /\ shimPc = "off"
    /\ script \in Scripts

PairNext ==
    \/ drv["A"].op = "none" /\ Scripted(runSync("A"))
    \/ drv["A"].op = "none" /\ Scripted(runAsync("A"))
    \/ Scripted(onTickCall("A"))
    \/ Scripted(runSyncTick("A"))
    \/ Scripted(runAsyncTick("A"))
    \/ Scripted(runSyncSpin("A"))
    \/ Scripted(waitResolve("A"))
    \/ Scripted(RunMicrotask)
    \/ Scripted(Elapse)

\* The host keeps running: synchronous code continues, the clock advances,
\* a timer that has expired fires, a queued continuation is run.
PairSpec == PairInit /\ [][PairNext]_vars /\ WF_vars(PairNext)

(***************************************************************************)
(* createMinimalWASI: the shim.  Every import resolves memory.buffer when  *)
(* it is called and works on it through a DataView (whose accessors throw  *)
(* a RangeError outside the buffer) and a Uint8Array (whose set throws     *)
(* likewise, whose indexed store outside the buffer is ignored, and whose  *)
(* slice clamps its bounds and copies).  An exception thrown by an import  *)
(* ends the guest's call, and what was written before it stays written.    *)
(* Numbers are the numbers the host receives: every i32 parameter signed.  *)
(* Strings are sequences of code points.                                   *)
(***************************************************************************)

\* The little-endian bytes of v in n bytes (v modulo 256^n, two's complement
\* for a negative v).
RECURSIVE LEBytes(_, _)
LEBytes(v, n) ==
    IF n = 0 THEN <<>> ELSE <<v % 256>> \o LEBytes(v \div 256, n - 1)

\* An ArrayBuffer that a growth of the memory has detached: no bytes.
Detached == [a \in {} |-> 0]

\* The buffer a shim that kept the ArrayBuffer it saw at setMemory would
\* work on.
MemoryBufferCaptured ==
    [generation |-> 0, bytes |-> IF generation = 0 THEN buffer ELSE Detached]

\* memory!.buffer, evaluated in a call: the ArrayBuffer of the guest's
\* memory at that moment.
MemoryBuffer == [generation |-> generation, bytes |-> buffer]

\* The byteLength of the views a call makes: new DataView(memory!.buffer)
\* and new Uint8Array(memory!.buffer).
ByteLength == Cardinality(DOMAIN MemoryBuffer.bytes)

\* The range check of DataView accessors and of Uint8Array.prototype.set.
InBounds(off, n) == off >= 0 /\ off + n <= ByteLength

\* A write through DataView (setUint8 / setUint16 / setUint32 /
\* setBigUint64, little-endian) or through mem.set: all of it or a RangeError.
RangeChecked(off, bs) == [off |-> off, bytes |-> bs, checked |-> TRUE]

\* mem[off] = b: an indexed store, ignored when off is no index of the array.
IndexedStore(off, b) == [off |-> off, bytes |-> <<b>>, checked |-> FALSE]

SetBytes(buf, off, bs) ==
    [a \in DOMAIN buf |->
        IF a >= off /\ a < off + Len(bs) THEN bs[a - off + 1] ELSE buf[a]]

\* The writes ws made in order on buf: the buffer they leave, and whether
\* one of them threw (the later ones are then not made).
RECURSIVE ApplyWrites(_, _)
ApplyWrites(buf, ws) ==
    IF ws = <<>> THEN [buffer |-> buf, threw |-> FALSE]
    ELSE LET w == Head(ws)
         IN  IF InBounds(w.off, Len(w.bytes))
             THEN ApplyWrites(SetBytes(buf, w.off, w.bytes), Tail(ws))
             ELSE IF w.checked THEN [buffer |-> buf, threw |-> TRUE]
             ELSE ApplyWrites(buf, Tail(ws))

\* view.getUint32(off, true), for off in bounds.
GetUint32(buf, off) ==
    buf[off] + 256 * buf[off + 1] + 65536 * buf[off + 2]
        + 16777216 * buf[off + 3]

Min(a, b) == IF a < b THEN a ELSE b

Max(a, b) == IF a > b THEN a ELSE b

\* An index argument of slice: relative to the end when negative, clamped.
RelativeIndex(k) ==
    IF k < 0 THEN Max(ByteLength + k, 0) ELSE Min(k, ByteLength)

\* mem.slice(start, end): a copy of the bytes between the clamped bounds.
Slice(buf, start, end) ==
    LET from == RelativeIndex(start)
        to == RelativeIndex(end)
    IN  [i \in 1..Max(to - from, 0) |-> buf[from + i - 1]]

\* encoder.encode(str): UTF-8 (code points below 65536).
RECURSIVE encode(_)
encode(str) ==
    IF str = <<>> THEN <<>>
    ELSE LET cp == Head(str)
         IN  (IF cp < 128 THEN <<cp>>
              ELSE IF cp < 2048 THEN <<192 + (cp \div 64), 128 + (cp % 64)>>
              ELSE <<224 + (cp \div 4096), 128 + ((cp \div 64) % 64),
                     128 + (cp % 64)>>)
             \o encode(Tail(str))

IsContinuation(b) == b \in 128..191

\* decoder.decode(bytes): UTF-8, not fatal: a byte that begins no complete
\* sequence decodes to U+FFFD.  The memories of the model hold one- and
\* two-byte sequences and bytes that begin none.
RECURSIVE decode(_)
decode(bs) ==
    IF bs = <<>> THEN <<>>
    ELSE LET b == Head(bs)
         IN  IF b < 128 THEN <<b>> \o decode(Tail(bs))
             ELSE IF b \in 194..223 /\ Len(bs) >= 2 /\ IsContinuation(bs[2])
             THEN <<(b - 192) * 64 + (bs[2] - 128)>>
                  \o decode(SubSeq(bs, 3, Len(bs)))
             ELSE <<65533>> \o decode(Tail(bs))

\* The own property keys that are array indices: canonical decimal strings.
IsIndexKey(k) ==
    /\ k # <<>>
    /\ \A i \in DOMAIN k : k[i] \in 48..57
    /\ (Len(k) = 1 \/ k[1] # 48)

RECURSIVE KeyNumber(_)
KeyNumber(k) ==
    IF k = <<>> THEN 0
    ELSE 10 * KeyNumber(SubSeq(k, 1, Len(k) - 1)) + (k[Len(k)] - 48)

\* Object.entries(env): the index keys in ascending numeric order, then the
\* other keys in insertion order.
ObjectEntries(e) ==
    SortSeq(SelectSeq(e, LAMBDA kv : IsIndexKey(kv[1])),
            LAMBDA a, b : KeyNumber(a[1]) < KeyNumber(b[1]))
    \o SelectSeq(e, LAMBDA kv : ~IsIndexKey(kv[1]))

\* const envArray = Object.entries(env).map(([k, v]) => `${k}=${v}`)
envArray ==
    LET entries == ObjectEntries(env)
    IN  [i \in DOMAIN entries |-> entries[i][1] \o <<61>> \o entries[i][2]]

\* A variant of BufSize that does not count the terminating 0 bytes.
RECURSIVE BufSizeNoTerminator(_)
BufSizeNoTerminator(strs) ==
    IF strs = <<>> THEN 0
    ELSE Len(encode(Head(strs))) + BufSizeNoTerminator(Tail(strs))

\* let bufSize = 0; for (const arg of args) bufSize += encode(arg).length + 1
RECURSIVE BufSize(_)
BufSize(strs) ==
    IF strs = <<>> THEN 0
    ELSE Len(encode(Head(strs))) + 1 + BufSize(Tail(strs))

\* The writes of args_sizes_get / environ_sizes_get over the strings strs.
SizesWrites(strs, count_ptr, buf_size_ptr) ==
    <<RangeChecked(count_ptr, LEBytes(Len(strs), 4)),
      RangeChecked(buf_size_ptr, LEBytes(BufSize(strs), 4))>>

\* The writes of args_get / environ_get over the strings strs: per string
\* its pointer, its encoding and the terminating 0.
RECURSIVE GetWrites(_, _, _)
GetWrites(strs, ptr, bufOffset) ==
    IF strs = <<>> THEN <<>>
    ELSE LET encoded == encode(Head(strs))
         IN  <<RangeChecked(ptr, LEBytes(bufOffset, 4)),
               RangeChecked(bufOffset, encoded),
               IndexedStore(bufOffset + Len(encoded), 0)>>
             \o GetWrites(Tail(strs), ptr + 4, bufOffset + Len(encoded) + 1)

\* The record of a call made from the current state.
Called(name, params, threw, hostBytes) ==
    [name |-> name, params |-> params, before |-> buffer, threw |-> threw,
     ret |-> 0, hostBytes |-> hostBytes, generation |-> generation,
     view |-> MemoryBuffer.generation]

\* An import that only writes memory: its writes are made and it returns 0.
WritingCall(name, params, ws, hostBytes, pc) ==
    LET res == ApplyWrites(MemoryBuffer.bytes, ws)
    IN  /\ buffer' = res.buffer
        /\ call' = Called(name, params, res.threw, hostBytes)
        /\ shimPc' = IF res.threw THEN "returned" ELSE pc
        /\ UNCHANGED <<schedVars, generation, args, env, stdout, stderr, script>>

args_sizes_get(argc_ptr, argv_buf_size_ptr) ==
    /\ shimPc = "ready"
    /\ WritingCall("args_sizes_get", <<argc_ptr, argv_buf_size_ptr>>,
                   SizesWrites(args, argc_ptr, argv_buf_size_ptr), <<>>, "sized")

args_get(argv_ptr, argv_buf_ptr) ==
    /\ \/ shimPc = "ready"
       \/ shimPc = "sized" /\ call.name = "args_sizes_get"
    /\ WritingCall("args_get", <<argv_ptr, argv_buf_ptr>>,
                   GetWrites(args, argv_ptr, argv_buf_ptr), <<>>, "returned")

environ_sizes_get(environ_count_ptr, environ_buf_size_ptr) ==
    /\ shimPc = "ready"
    /\ WritingCall("environ_sizes_get",
                   <<environ_count_ptr, environ_buf_size_ptr>>,
                   SizesWrites(envArray, environ_count_ptr,
                               environ_buf_size_ptr), <<>>, "sized")

environ_get(environ_ptr, environ_buf_ptr) ==
    /\ \/ shimPc = "ready"
       \/ shimPc = "sized" /\ call.name = "environ_sizes_get"
    /\ WritingCall("environ_get", <<environ_ptr, environ_buf_ptr>>,
                   GetWrites(envArray, environ_ptr, environ_buf_ptr), <<>>,
                   "returned")

\* The clock readings of the model, in nanoseconds.
ClockTimes == {1000000, 259000000}

\* clock_time_get: time is what Date.now() or performance.now() gives.
clock_time_get(clock_id, precision, time_ptr) ==
    /\ shimPc = "ready"
    /\ \E time \in ClockTimes :
          WritingCall("clock_time_get", <<clock_id, precision, time_ptr>>,
                      <<RangeChecked(time_ptr, LEBytes(time, 8))>>,
                      LEBytes(time, 8), "returned")

\* fd_fdstat_get's fs_filetype: if (fd <= 2) 2 else 6.
FdstatFiletype(fd) == IF fd <= 2 THEN 2 ELSE 6

fd_fdstat_get(fd, stat_ptr) ==
    /\ shimPc = "ready"
    /\ WritingCall("fd_fdstat_get", <<fd, stat_ptr>>,
                   <<RangeChecked(stat_ptr, <<FdstatFiletype(fd)>>),
                     RangeChecked(stat_ptr + 2, LEBytes(0, 2)),
                     RangeChecked(stat_ptr + 8, [i \in 1..8 |-> 255]),
                     RangeChecked(stat_ptr + 16, [i \in 1..8 |-> 255])>>,
                   <<>>, "returned")

\* The model calls fd_write on iovec arrays whose fields are below 65536.
SmallIovecs(buf, iovs_ptr, iovs_len) ==
    \A i \in 0..(iovs_len - 1) : \A off \in {iovs_ptr + i * 8, iovs_ptr + i * 8 + 4} :
        InBounds(off, 4) => (buf[off + 2] = 0 /\ buf[off + 3] = 0)

\* fd_write's loop over the iovecs from index i on: whether a getUint32
\* threw, and otherwise the text and the count it accumulated.
RECURSIVE ReadIovecs(_, _, _, _)
ReadIovecs(buf, iovs_ptr, iovs_len, i) ==
    IF i >= iovs_len THEN [threw |-> FALSE, text |-> <<>>, written |-> 0]
    ELSE IF ~InBounds(iovs_ptr + i * 8, 4) \/ ~InBounds(iovs_ptr + i * 8 + 4, 4)
    THEN [threw |-> TRUE, text |-> <<>>, written |-> 0]
    ELSE LET ptr == GetUint32(buf, iovs_ptr + i * 8)
             len == GetUint32(buf, iovs_ptr + i * 8 + 4)
             rest == ReadIovecs(buf, iovs_ptr, iovs_len, i + 1)
         IN  [threw |-> rest.threw,
              text |-> decode(Slice(buf, ptr, ptr + len)) \o rest.text,
              written |-> len + rest.written]

fd_write(fd, iovs_ptr, iovs_len, nwritten_ptr) ==
    /\ shimPc = "ready"
    /\ SmallIovecs(buffer, iovs_ptr, iovs_len)
    /\ LET mem == MemoryBuffer.bytes
           r == ReadIovecs(mem, iovs_ptr, iovs_len, 0)
           res == IF r.threw THEN [buffer |-> mem, threw |-> TRUE]
                  ELSE ApplyWrites(mem,
                      <<RangeChecked(nwritten_ptr, LEBytes(r.written, 4))>>)
       IN  /\ stdout' = IF ~r.threw /\ fd = 1 THEN Append(stdout, r.text)
                        ELSE stdout
           /\ stderr' = IF ~r.threw /\ fd = 2 THEN Append(stderr, r.text)
                        ELSE stderr
           /\ buffer' = res.buffer
           /\ call' = Called("fd_write",
                             <<fd, iovs_ptr, iovs_len, nwritten_ptr>>,
                             res.threw, <<>>)
    /\ shimPc' = "returned"
    /\ UNCHANGED <<schedVars, generation, args, env, script>>

\* fd_read: a stub, (_fd, _iovs_ptr, _iovs_len, _nread_ptr) => 0.  It looks
\* at none of its parameters and at no memory (view -1: none made).
fd_read(fd, iovs_ptr, iovs_len, nread_ptr) ==
    /\ shimPc = "ready"
    /\ call' = [Called("fd_read", <<fd, iovs_ptr, iovs_len, nread_ptr>>,
                       FALSE, <<>>) EXCEPT !.view = -1]
    /\ shimPc' = "returned"
    /\ UNCHANGED <<schedVars, buffer, generation, args, env, stdout, stderr,
                   script>>

\* The bytes crypto.getRandomValues produces in the model.
RandomBytes == {7, 200}

\* random_get: crypto.getRandomValues fills mem.slice(buf_ptr, buf_ptr +
\* buf_len), which is a copy of the span.
random_get(buf_ptr, buf_len) ==
    /\ shimPc = "ready"
    /\ \E rnd \in [1..Len(Slice(MemoryBuffer.bytes, buf_ptr, buf_ptr + buf_len))
                      -> RandomBytes] :
          call' = Called("random_get", <<buf_ptr, buf_len>>, FALSE, rnd)
    /\ shimPc' = "returned"
    /\ UNCHANGED <<schedVars, buffer, generation, args, env, stdout, stderr,
                   script>>

\* An iovec in guest memory: two little-endian 32-bit fields.
Iovec(ptr, len) == LEBytes(ptr, 4) \o LEBytes(len, 4)

\* A guest memory: two iovecs at 0, the bytes of "hi" and of U+00E9 at 16,
\* and '.' elsewhere.
GuestImage(iovs) ==
    SetBytes(SetBytes([a \in Addresses |-> 46], 0,
                      Iovec(iovs[1][1], iovs[1][2])
                          \o Iovec(iovs[2][1], iovs[2][2])),
             16, <<104, 105, 195, 169>>)

\* The iovec arrays of the model: "hi" and the character; the character
\* split over two iovecs; a second span that ends beyond the buffer.
IovecArrays ==
    {<<<<16, 2>>, <<18, 2>>>>,
     <<<<16, 3>>, <<19, 1>>>>,
     <<<<18, 2>>, <<MemSize - 2, 4>>>>}

\* The argument vectors: none, "a", and "a" with U+00E9 "b".
ArgVectors == {<<>>, <<<<97>>>>, <<<<97>>, <<233, 98>>>>}

\* The environments: none, A=x, and B then 1 in insertion order.
EnvMappings ==
    {<<>>,
     <<<<<<65>>, <<120>>>>>>,
     <<<<<<66>>, <<120>>>>, <<<<49>>, <<121>>>>>>}

\* The pointers the guest passes (-1 is how the host receives 4294967295).
Pointers == {-1, 0, 4, 8, MemSize - 2, MemSize}

\* The descriptors the guest passes (-1 is how the host receives 4294967295).
Descriptors == {-1, 0, 1, 2, 3}

\* A reactor created with the shim of createMinimalWASI, its guest about
\* to call the shim from inside an entry point.
ShimInit ==
    /\ host = "js"
    /\ exports = ExportNames
    /\ options = [setMemory |-> TRUE, onTick |-> FALSE]
    /\ cpc = "done"
    /\ createErr = ""
    /\ memory = "memory"
    /\ mainStarted = FALSE
    /\ nInitialize = 1
    /\ nStartMain = 0
    /\ nTick = 0
    /\ drv = [c \in Callers |-> IdleDriver]
    /\ active = "none"
    /\ microtasks = <<>>
    /\ hostWork = "none"
    /\ buffer \in {GuestImage(iovs) : iovs \in IovecArrays}
    /\ generation = 0
    /\ args \in ArgVectors
    /\ env \in EnvMappings
    /\ stdout = <<>>
    /\ stderr = <<>>
    /\ call = NoCall
    /\ shimPc = "ready"
    /\ script = <<>>

\* The guest makes one shim call, or a sizes call and then the get call.
ShimNext ==
    \/ \E p, q \in Pointers : args_sizes_get(p, q)
    \/ \E p, q \in Pointers : args_get(p, q)
    \/ \E p, q \in Pointers : environ_sizes_get(p, q)
    \/ \E p, q \in Pointers : environ_get(p, q)
    \/ \E id \in {0, 1}, p \in {0, 16, MemSize - 4} : clock_time_get(id, 0, p)
    \/ \E fd \in Descriptors, p \in {0, 8, MemSize - 4}, n \in 0..2,
          q \in {-1, 20, MemSize - 2} : fd_write(fd, p, n, q)
    \/ \E fd \in Descriptors, p \in {-1, 0, 8, MemSize} : fd_fdstat_get(fd, p)
    \/ \E p \in {-1, 0, 17, MemSize - 1}, n \in 0..2 : random_get(p, n)
    \/ \E fd \in {0, 3}, n \in 0..1, q \in {-1, 4, 20, MemSize} :
          fd_read(fd, 8, n, q)

ShimSpec == ShimInit /\ [][ShimNext]_vars

(***************************************************************************)
(* Growth of the guest's memory.  The guest grows its memory in its own    *)
(* code, so never inside a shim call: memory.buffer is from then on a new, *)
(* longer ArrayBuffer that begins with the old bytes and continues with    *)
(* zeros, and the old ArrayBuffer is detached.                             *)
(***************************************************************************)

\* The bytes of a page of the model (a WebAssembly page has 65536).
PageSize == 2

\* The byteLength of the memory the guest starts with.
GrowStart == MemSize - MaxGrow * PageSize

\* The guest grows its memory by one page, before its first shim call or
\* between a sizes call and the get call.
memory_grow ==
    /\ shimPc \in {"ready", "sized"}
    /\ generation < MaxGrow
    /\ LET len == Cardinality(DOMAIN buffer)
       IN  buffer' = [a \in 0..(len + PageSize - 1) |->
                         IF a < len THEN buffer[a] ELSE 0]
    /\ generation' = generation + 1
    /\ UNCHANGED <<schedVars, args, env, stdout, stderr, call, shimPc, script>>

\* The pointers the guest passes: in the memory it started with, and in
\* the pages it grew.
GrowPointers == {0, 8, GrowStart, MemSize - 8}

\* As ShimInit, the guest's memory not yet grown.
GrowInit ==
    /\ host = "js"
    /\ exports = ExportNames
    /\ options = [setMemory |-> TRUE, onTick |-> FALSE]
    /\ cpc = "done"
    /\ createErr = ""
    /\ memory = "memory"
    /\ mainStarted = FALSE
    /\ nInitialize = 1
    /\ nStartMain = 0
    /\ nTick = 0
    /\ drv = [c \in Callers |-> IdleDriver]
    /\ active = "none"
    /\ microtasks = <<>>
    /\ hostWork = "none"
    /\ \E iovs \in IovecArrays :
          buffer = [a \in 0..(GrowStart - 1) |-> GuestImage(iovs)[a]]
    /\ generation = 0
    /\ args \in ArgVectors
    /\ env \in EnvMappings
    /\ stdout = <<>>
    /\ stderr = <<>>
    /\ call = NoCall
    /\ shimPc = "ready"
    /\ script = <<>>

GrowNext ==
    \/ memory_grow
    \/ \E p, q \in GrowPointers : args_sizes_get(p, q)
    \/ \E p, q \in GrowPointers : args_get(p, q)
    \/ \E p, q \in GrowPointers : environ_sizes_get(p, q)
    \/ \E p, q \in GrowPointers : environ_get(p, q)
    \/ \E id \in {0, 1}, p \in GrowPointers : clock_time_get(id, 0, p)
    \/ \E fd \in {1, 2}, n \in 1..2, q \in GrowPointers : fd_write(fd, 0, n, q)
    \/ \E fd \in {0, 3}, p \in GrowPointers : fd_fdstat_get(fd, p)
    \/ \E p \in GrowPointers, n \in 0..2 : random_get(p, n)
    \/ \E q \in GrowPointers : fd_read(0, 8, 1, q)

GrowSpec == GrowInit /\ [][GrowNext]_vars

(***************************************************************************)
(* The claims.                                                             *)
(***************************************************************************)

\* go_tick returns to caller c's operation in this step.
TickReturned(c) ==
    \/ host = "js" /\ drv[c].pc = "tick" /\ drv'[c] # drv[c]
    \/ host = "go" /\ drv[c].pc = "inTick" /\ drv'[c].pc # "inTick"

ErrorOutcomes == {"throw", "err", "start main: err", "loop once: err"}

\* C1: within a run (runSync, runAsync, Run, RunWithCallback), the step in
\* which go_tick returns -1 ends the run with success: the run is done
\* (returned, so it invokes neither go_tick nor onTick again) and its
\* outcome is ok.
C1_IdleEndsRun ==
    [][\A c \in Callers :
          (/\ drv[c].op \in RunOps
           /\ TickReturned(c)
           /\ drv'[c].result = <<LoopIdle>>)
          => (drv'[c].pc = "done" /\ drv'[c].outcome = "ok")]_vars

\* C1 witness: a run that has ticked more than once has returned success on
\* the tick result -1.
C1_Witness ==
    \E c \in Callers :
        /\ drv[c].op \in RunOps
        /\ drv[c].pc = "done"
        /\ drv[c].outcome = "ok"
        /\ drv[c].result = <<LoopIdle>>
        /\ nTick > 1

\* C2: within a run, the step in which go_tick returns a negative value
\* other than -1 ends the run with an error (Faulted): the run is done and
\* its outcome is an error, so go_tick is not invoked again.
C2_InvalidResultFaults ==
    [][\A c \in Callers :
          (/\ drv[c].op \in RunOps
           /\ TickReturned(c)
           /\ drv'[c].result # <<>>
           /\ drv'[c].result[1] < LoopIdle)
          => (drv'[c].pc = "done" /\ drv'[c].outcome \in ErrorOutcomes)]_vars

\* C3: whatever startMain / run calls are made on the instance, the guest's
\* go_start_main is invoked at most once.
C3_StartMainAtMostOnce == nStartMain <= 1

\* C4: go_tick is never invoked before go_start_main has been invoked.
C4_NoTickBeforeStartMain == nTick > 0 => nStartMain > 0

\* C5 (as claimed), for a module that exports its memory: createReactor
\* invokes _initialize exactly once, only after setMemory has handed the
\* guest memory to the shim (the shim holds it), before any go_start_main or
\* go_tick, and no Reactor operation invokes it again.
C5_InitializeAfterMemoryHanded ==
    (host = "js" /\ "memory" \in exports) =>
        /\ nInitialize <= 1
        /\ (cpc = "done" => nInitialize = 1)
        /\ (nInitialize > 0 => memory = "memory")
        /\ (nStartMain > 0 \/ nTick > 0 => nInitialize = 1)

\* C5 (amended): createReactor invokes _initialize exactly once; when a
\* setMemory callback is configured, only after it has been called with
\* exports.memory; before any go_start_main or go_tick; and no Reactor
\* operation invokes it again.
C5_InitializeOnceAfterSetMemory ==
    host = "js" =>
        /\ nInitialize <= 1
        /\ (cpc = "done" => nInitialize = 1)
        /\ (nInitialize > 0 /\ options.setMemory => memory = ExportedMemory)
        /\ (nStartMain > 0 \/ nTick > 0 => nInitialize = 1)

\* C5 witness: a created JS reactor whose shim holds the guest memory and
\* which has since been started and ticked.
C5_Witness ==
    /\ host = "js"
    /\ cpc = "done"
    /\ options.setMemory
    /\ memory = "memory"
    /\ nInitialize = 1
    /\ nStartMain > 0
    /\ nTick > 0

\* C6: a Go run whose context was cancelled while it was suspended in its
\* timer wait is from then on only in the wait, at the top of the loop or
\* returned (it invokes no guest entry point and no onTick), and it returns
\* the cancellation error; the timer may have expired at that moment.
C6_CancelInWaitAborts ==
    \A c \in Callers :
        drv[c].cancelledInWait =>
            /\ drv[c].pc \in {"wait", "top", "done"}
            /\ (drv[c].pc = "done" => drv[c].outcome = "ctx.Err")

\* C6 witness: a run with a callback was cancelled during its timer wait and
\* has returned the cancellation error.
C6_Witness ==
    \E c \in Callers :
        /\ drv[c].op = "RunWithCallback"
        /\ drv[c].cancelledInWait
        /\ drv[c].pc = "done"
        /\ drv[c].outcome = "ctx.Err"

WaitOps == {"runAsync", "Run", "RunWithCallback"}

\* C7: in runAsync and Go Run (and RunWithCallback), the step in which
\* go_tick returns n > 0 starts a wait of n ms; a wait is started by nothing
\* else; and, absent cancellation, the loop leaves the wait only when the
\* n ms have elapsed, towards its next iteration.
C7_TimerWait ==
    [][\A c \in Callers :
          drv[c].op \in WaitOps =>
            /\ (/\ TickReturned(c)
                /\ drv'[c].result # <<>>
                /\ drv'[c].result[1] > 0)
               => (drv'[c].pc = "wait" /\ drv'[c].timer = drv'[c].result[1])
            /\ (drv[c].pc # "wait" /\ drv'[c].pc = "wait") => TickReturned(c)
            /\ (drv[c].pc = "wait" /\ drv'[c].pc # "wait" /\ ~drv[c].cancelled)
               => (drv[c].timer = 0 /\ drv'[c].pc \in {"resume", "top"})]_vars

\* C7 witness: a wait of more than one millisecond has run to its end.
C7_Witness ==
    \E c \in Callers :
        /\ drv[c].op \in {"runAsync", "Run"}
        /\ drv[c].pc = "wait"
        /\ drv[c].result # <<>>
        /\ drv[c].result[1] > 1
        /\ drv[c].timer = 0

\* C8: in behaviours where only runAsync-style driving is used (no runSync)
\* and the guest's go_tick only ever returns 0, other host work that is due
\* on the event loop eventually runs.
C8_HostNotStarved ==
    [](\A c \in Callers :
          /\ drv[c].op # "runSync"
          /\ drv[c].result \in {<<>>, <<LoopReady>>})
    => ((hostWork = "due") ~> (hostWork = "none"))

\* C9: at most one driver loop is active on the instance and no two go_tick
\* invocations on it overlap.
C9_SingleDriver ==
    /\ Cardinality({c \in Callers :
            drv[c].op \in RunOps /\ drv[c].pc \notin {"idle", "done"}}) <= 1
    /\ Cardinality({c \in Callers : drv[c].pc = "inTick"}) <= 1

\* The function exports createReactor / NewReactor require, in the order
\* they are looked for.
RequiredFunctions == <<"_initialize", "go_start_main", "go_tick">>

NamesFirstMissing(e) ==
    \E i \in DOMAIN RequiredFunctions :
        /\ e = RequiredFunctions[i]
        /\ RequiredFunctions[i] \notin exports
        /\ \A j \in DOMAIN RequiredFunctions :
              j < i => RequiredFunctions[j] \in exports

\* C10: when the module lacks one of the three function exports,
\* instantiation never succeeds, no guest entry point is invoked, and the
\* error it fails with names exactly the first missing export.
C10_MissingExportFails ==
    (\E i \in DOMAIN RequiredFunctions : RequiredFunctions[i] \notin exports)
    => /\ cpc \in {"instantiated", "failed"}
       /\ nInitialize = 0
       /\ nStartMain = 0
       /\ nTick = 0
       /\ (cpc = "failed" => NamesFirstMissing(createErr))

\* C10 witness: a module missing only go_tick has failed instantiation
\* with the error naming go_tick.
C10_Witness ==
    /\ cpc = "failed"
    /\ createErr = "go_tick"
    /\ exports = ExportNames \ {"go_tick"}
    /\ nInitialize = 0

\* C11: when the module exports the three functions but no memory,
\* createReactor fails with an error naming the memory export, and neither
\* setMemory nor _initialize is invoked.
C11_MissingMemoryFails ==
    (/\ host = "js"
     /\ \A i \in DOMAIN RequiredFunctions : RequiredFunctions[i] \in exports
     /\ "memory" \notin exports)
    => /\ cpc # "done"
       /\ nInitialize = 0
       /\ memory = "null"
       /\ (cpc = "failed" => createErr = "memory")

\* C12: a JavaScript operation in whose go_tick the guest called
\* proc_exit(code) has ended at that tick: it is done, what it threw is the
\* exit signal with exactly that code (it propagated out of loopOnce and out
\* of runSync / runAsync), and none of its code is on the stack or queued,
\* so it invokes neither go_tick nor onTick again.
C12_ProcExitEndsRun ==
    \A c \in Callers :
        drv[c].fault.kind = "exit" =>
            /\ drv[c].op \in {"loopOnce", "runSync", "runAsync"}
            /\ drv[c].pc = "done"
            /\ drv[c].outcome = "exit(" \o ToString(drv[c].fault.code) \o ")"
            /\ active # c
            /\ \A i \in DOMAIN microtasks : microtasks[i] # c

\* C12 witness: a runAsync with a callback has ended by proc_exit(1) in a
\* tick that was not the instance's first.
C12_Witness ==
    \E c \in Callers :
        /\ drv[c].op = "runAsync"
        /\ options.onTick
        /\ drv[c].fault = ProcExit("go_tick", 1)
        /\ drv[c].outcome = "exit(1)"
        /\ nTick > 1

\* C13: a Go Run / RunWithCallback in which the invocation of go_start_main
\* or go_tick failed has returned, with the error wrapped in "start main"
\* or "loop once" respectively; having returned at the failing call, it
\* invokes no further guest entry point (after a go_start_main failure it
\* never ticks: it holds no tick result and no callback was made).
C13_GoErrorsWrapped ==
    \A c \in Callers :
        (drv[c].op \in {"Run", "RunWithCallback"} /\ drv[c].fault.kind = "trap")
        => /\ drv[c].pc = "done"
           /\ drv[c].fault.entry = "go_start_main"
              => /\ drv[c].outcome = "start main: err"
                 /\ drv[c].result = <<>>
                 /\ drv[c].cbAhead = 0
           /\ drv[c].fault.entry = "go_tick"
              => drv[c].outcome = "loop once: err"

\* C13 witness: one Go run has failed at go_start_main and another at
\* go_tick, each with its wrapped error.
C13_Witness ==
    /\ host = "go"
    /\ drv["A"].op = "Run"
    /\ drv["A"].fault = Trap("go_start_main")
    /\ drv["A"].outcome = "start main: err"
    /\ drv["B"].op = "RunWithCallback"
    /\ drv["B"].fault = Trap("go_tick")
    /\ drv["B"].outcome = "loop once: err"

\* The run modes that take a per-iteration callback.
CallbackOps == {"runSync", "runAsync", "RunWithCallback"}

\* C14: in a run with a callback, callback and tick invocations alternate,
\* starting with the callback: the callbacks made and not yet followed by a
\* tick are none or one, and exactly one when the run is about to invoke
\* go_tick; between the callback and its tick the JavaScript run stays on
\* the stack (no suspension); and a run that ended normally has made as
\* many ticks as callbacks.
C14_CallbackBeforeEachTick ==
    \A c \in Callers :
        /\ (drv[c].op \in CallbackOps /\ drv[c].cb)
           => /\ drv[c].cbAhead \in {0, 1}
              /\ drv[c].cbAhead = 1 <=> drv[c].pc = "tick"
              /\ (host = "js" /\ drv[c].cbAhead = 1) => active = c
        /\ (drv[c].op \in CallbackOps /\ drv[c].pc = "done"
                /\ drv[c].outcome = "ok")
           => drv[c].cbAhead = 0

\* C14 witness: a run with a callback is about to invoke go_tick, not for
\* the first time, right after its callback.
C14_Witness ==
    \E c \in Callers :
        /\ drv[c].op \in CallbackOps
        /\ drv[c].cb
        /\ drv[c].pc = "tick"
        /\ drv[c].cbAhead = 1
        /\ nTick > 1

\* The addresses off .. off + n - 1.
Span(off, n) == off..(off + n - 1)

\* The imports that write guest memory, as C15 lists them.
WritingCalls ==
    {"args_get", "environ_get", "args_sizes_get", "environ_sizes_get",
     "clock_time_get", "fd_fdstat_get", "fd_write"}

\* The strings the last call is about: the arguments or the environment.
CallStrings == IF call.name \in {"args_get", "args_sizes_get"} THEN args
               ELSE envArray

\* The addresses the last call has to write, by the layout of its outputs.
MustWrite ==
    LET p == call.params
    IN  CASE call.name \in {"args_sizes_get", "environ_sizes_get"} ->
                Span(p[1], 4) \cup Span(p[2], 4)
          [] call.name \in {"args_get", "environ_get"} ->
                Span(p[1], 4 * Len(CallStrings))
                    \cup Span(p[2], BufSize(CallStrings))
          [] call.name = "clock_time_get" -> Span(p[3], 8)
          [] call.name = "fd_fdstat_get" ->
                {p[2]} \cup Span(p[2] + 2, 2) \cup Span(p[2] + 8, 16)
          [] call.name = "fd_write" -> Span(p[4], 4)
          [] OTHER -> {}

\* C15: after a call of a writing import one of whose output addresses lies
\* outside the buffer, the call has failed and guest memory is exactly as
\* it was before the call.
C15_WritesAllOrNothing ==
    (call.name \in WritingCalls /\ \E a \in MustWrite : a \notin Addresses)
    => (call.threw /\ buffer = call.before)

\* The iovecs the last fd_write read, from the memory it was called on:
\* iovec i of the array at iovs_ptr.
IovecPtr(i) == GetUint32(call.before, call.params[2] + i * 8)

IovecLen(i) == GetUint32(call.before, call.params[2] + i * 8 + 4)

IovecArrayInBounds == InBounds(call.params[2], 8 * call.params[3])

\* C16: after an fd_write (its iovec array and its nwritten_ptr in bounds)
\* one of whose iovecs references a span that ends beyond the buffer, the
\* call has failed, no sink was given anything (so no clamped span), and
\* memory is as before (so no byte count above the bytes read was stored).
C16_FdWriteOutOfBoundsFails ==
    (/\ call.name = "fd_write"
     /\ IovecArrayInBounds
     /\ InBounds(call.params[4], 4)
     /\ \E i \in 0..(call.params[3] - 1) : IovecPtr(i) + IovecLen(i) > MemSize)
    => (call.threw /\ stdout = <<>> /\ stderr = <<>> /\ buffer = call.before)

\* C17: after random_get(buf_ptr, buf_len) returned 0 with the span inside
\* memory, the span of guest memory holds the bytes the random source
\* produced for the call.
C17_RandomGetFillsSpan ==
    (/\ call.name = "random_get"
     /\ ~call.threw
     /\ call.ret = 0
     /\ InBounds(call.params[1], call.params[2]))
    => \A i \in 1..call.params[2] :
          buffer[call.params[1] + i - 1] = call.hostBytes[i]

\* The bytes of the spans of iovecs i .. n - 1, in order.
RECURSIVE SpansFrom(_, _)
SpansFrom(i, n) ==
    IF i >= n THEN <<>>
    ELSE [k \in 1..IovecLen(i) |-> call.before[IovecPtr(i) + k - 1]]
         \o SpansFrom(i + 1, n)

RECURSIVE LengthsFrom(_, _)
LengthsFrom(i, n) == IF i >= n THEN 0 ELSE IovecLen(i) + LengthsFrom(i + 1, n)

\* C18: after an fd_write whose iovec spans are all in bounds (and whose
\* nwritten_ptr is), the call returned 0, the value at nwritten_ptr is the
\* sum of the iovec lengths, and the text of the concatenated spans was
\* delivered in one call to the stdout sink for fd 1, to the stderr sink for
\* fd 2, and nothing to either sink for any other fd.
C18_FdWriteDeliversSpans ==
    (/\ call.name = "fd_write"
     /\ IovecArrayInBounds
     /\ \A i \in 0..(call.params[3] - 1) : IovecPtr(i) + IovecLen(i) <= MemSize
     /\ InBounds(call.params[4], 4))
    => LET n == call.params[3]
           text == decode(SpansFrom(0, n))
       IN  /\ ~call.threw
           /\ call.ret = 0
           /\ GetUint32(buffer, call.params[4]) = LengthsFrom(0, n)
           /\ stdout = IF call.params[1] = 1 THEN <<text>> ELSE <<>>
           /\ stderr = IF call.params[1] = 2 THEN <<text>> ELSE <<>>

\* The NUL-terminated encodings of strs, one after the other.
RECURSIVE Packed(_)
Packed(strs) ==
    IF strs = <<>> THEN <<>>
    ELSE encode(Head(strs)) \o <<0>> \o Packed(Tail(strs))

\* After a sizes call with its two (distinct, in-bounds) outputs: the count
\* is the number of strings and the total is the sum over the strings of
\* the encoded length plus one.
SizesStored(strs) ==
    LET p == call.params
    IN  (InBounds(p[1], 4) /\ InBounds(p[2], 4)
            /\ Span(p[1], 4) \cap Span(p[2], 4) = {})
        => /\ ~call.threw
           /\ call.ret = 0
           /\ GetUint32(buffer, p[1]) = Len(strs)
           /\ GetUint32(buffer, p[2]) = Len(Packed(strs))

\* After a get call with its pointer array and its string buffer in bounds
\* and apart: pointer i addresses the NUL-terminated encoding of string i,
\* the strings lie one after the other from the start of the buffer in the
\* order of strs, on exactly the total bytes, and nothing else changed.
GetStored(strs) ==
    LET p == call.params
        total == Len(Packed(strs))
    IN  (InBounds(p[1], 4 * Len(strs)) /\ InBounds(p[2], total)
            /\ Span(p[1], 4 * Len(strs)) \cap Span(p[2], total) = {})
        => /\ ~call.threw
           /\ call.ret = 0
           /\ \A i \in DOMAIN strs :
                 GetUint32(buffer, p[1] + 4 * (i - 1))
                     = p[2] + Len(Packed(SubSeq(strs, 1, i - 1)))
           /\ \A k \in 1..total : buffer[p[2] + k - 1] = Packed(strs)[k]
           /\ \A a \in Addresses :
                 a \notin Span(p[1], 4 * Len(strs)) \cup Span(p[2], total)
                 => buffer[a] = call.before[a]

\* The KEY=VALUE strings of the entries es.
KeyValueStrings(es) == [i \in DOMAIN es |-> es[i][1] \o <<61>> \o es[i][2]]

\* C19 (as claimed): args_sizes_get / environ_sizes_get store the count and
\* the total, and args_get / environ_get store the pointers and the packed
\* NUL-terminated strings, the arguments and the KEY=VALUE strings of the
\* environment each in declaration order.
C19_StringsInDeclarationOrder ==
    /\ call.name = "args_sizes_get" => SizesStored(args)
    /\ call.name = "args_get" => GetStored(args)
    /\ call.name = "environ_sizes_get" => SizesStored(KeyValueStrings(env))
    /\ call.name = "environ_get" => GetStored(KeyValueStrings(env))

\* es lists the entries of env in the order of JavaScript's own property
\* keys: the keys that are array indices first, ascending, and then the
\* other keys in insertion order.
InPropertyOrder(es) ==
    /\ Len(es) = Len(env)
    /\ \E f \in [DOMAIN es -> DOMAIN env] :
          /\ \A i, j \in DOMAIN es : i # j => f[i] # f[j]
          /\ \A i \in DOMAIN es : es[i] = env[f[i]]
          /\ \A i, j \in DOMAIN es :
                i < j =>
                    IF IsIndexKey(es[i][1])
                    THEN IsIndexKey(es[j][1])
                            => KeyNumber(es[i][1]) < KeyNumber(es[j][1])
                    ELSE ~IsIndexKey(es[j][1]) /\ f[i] < f[j]

\* The orders in which the entries of env can be listed.
EnvOrders ==
    {[i \in DOMAIN env |-> env[f[i]]] : f \in [DOMAIN env -> DOMAIN env]}

\* C19 (amended): as claimed for the arguments; the environment's KEY=VALUE
\* strings are counted likewise and packed in the order of Object.entries:
\* keys that are array indices first, ascending, then the other keys in
\* insertion order.
C19_StringsInPropertyOrder ==
    /\ call.name = "args_sizes_get" => SizesStored(args)
    /\ call.name = "args_get" => GetStored(args)
    /\ call.name \in {"environ_sizes_get", "environ_get"}
       => \E es \in EnvOrders :
             /\ InPropertyOrder(es)
             /\ call.name = "environ_sizes_get"
                => SizesStored(KeyValueStrings(es))
             /\ call.name = "environ_get" => GetStored(KeyValueStrings(es))

\* C19 witness: environ_get has returned the two strings of an environment
\* whose index key was inserted last, after environ_sizes_get is no longer
\* pending.
C19_Witness ==
    /\ call.name = "environ_get"
    /\ ~call.threw
    /\ call.params = <<0, 8>>
    /\ Len(env) = 2
    /\ IsIndexKey(env[2][1])
    /\ ~IsIndexKey(env[1][1])
    /\ shimPc = "returned"

\* C20: after fd_fdstat_get with the 24 bytes at stat_ptr in bounds, the
\* call returned 0 and stored file type 2 exactly for the descriptors 0, 1
\* and 2 and 6 for every other one (a descriptor of 2^31 or more reaches the
\* host as a negative number), flags 0 and all bits of both rights fields.
C20_FdstatFiletype ==
    (call.name = "fd_fdstat_get" /\ InBounds(call.params[2], 24))
    => LET fd == call.params[1]
           stat_ptr == call.params[2]
       IN  /\ ~call.threw
           /\ call.ret = 0
           /\ buffer[stat_ptr] = IF fd \in {0, 1, 2} THEN 2 ELSE 6
           /\ buffer[stat_ptr + 2] = 0
           /\ buffer[stat_ptr + 3] = 0
           /\ \A a \in Span(stat_ptr + 8, 16) : buffer[a] = 255

\* C21: after fd_read with nread_ptr inside memory, the call has returned 0,
\* the four bytes at nread_ptr are 0 whatever they held before, and every
\* other byte of guest memory is as it was before the call.
C21_FdReadReportsZero ==
    (call.name = "fd_read" /\ InBounds(call.params[4], 4))
    => /\ ~call.threw
       /\ call.ret = 0
       /\ \A a \in Addresses :
             buffer[a] = IF a \in Span(call.params[4], 4) THEN 0
                         ELSE call.before[a]

\* The imports that resolve the memory buffer: all but the stubs.
MemoryCalls == WritingCalls \cup {"random_get"}

\* The last call's outputs lie in the memory that was current at the call.
OutputsInMemory ==
    /\ MustWrite \subseteq DOMAIN call.before
    /\ call.name = "fd_write" => Span(call.params[2], 8 * call.params[3])
                                      \subseteq DOMAIN call.before

\* C22: a call of an import that touches memory worked on the ArrayBuffer
\* that was the guest's memory at the time of the call, however often the
\* memory had grown since setMemory or since the call before.  So a call
\* whose outputs lie inside that memory did not fail, left the length of
\* the memory alone, and what clock_time_get stored is in the guest's
\* memory.
C22_CallsUseCurrentBuffer ==
    call.name \in MemoryCalls
    => /\ call.view = call.generation
       /\ OutputsInMemory
          => /\ ~call.threw
             /\ generation = call.generation
                => DOMAIN buffer = DOMAIN call.before
             /\ call.name = "clock_time_get"
                => \A i \in 1..8 :
                      buffer[call.params[3] + i - 1] = call.hostBytes[i]

\* C22's case: the memory has grown since setMemory, and a call has stored
\* its output across the end of the first buffer, in bytes only the newest
\* buffer has.
C22_Witness ==
    /\ call.name = "clock_time_get"
    /\ call.generation = MaxGrow
    /\ call.params[3] + 8 > MemSize - PageSize
    /\ OutputsInMemory
    /\ ~call.threw

\* Caller c's last operation was a run, and it has ended: in Idle (go_tick
\* returned -1), Cancelled (its context was cancelled) or Faulted (an error
\* or exception left it).
RunEnded(c) == drv[c].op \in RunOps /\ drv[c].pc = "done"

\* The public operations C23 is about.
LaterOps == RunOps \cup {"loopOnce", "LoopOnce"}

\* C23: once a caller's run on the reactor has ended, a loopOnce / LoopOnce
\* or a run that caller then calls on the reactor invokes neither go_tick
\* nor go_start_main.
C23_TerminalStates ==
    [][\A c \in Callers :
          (RunEnded(c) /\ drv'[c] # drv[c] /\ drv'[c].op \in LaterOps)
          => (nTick' = nTick /\ nStartMain' = nStartMain)]_vars

\* One iteration of a run's loop: the callback, if there is one, and the
\* tick.
Iteration(cb) == IF cb THEN <<"onTick", "go_tick">> ELSE <<"go_tick">>

\* n iterations.
RECURSIVE Iterations(_, _)
Iterations(cb, n) ==
    IF n = 0 THEN <<>> ELSE Iteration(cb) \o Iterations(cb, n - 1)

\* The invocations C24 names for the script: go_start_main once, then one
\* iteration for each tick result of the script, the last one the tick that
\* returned -1.
ExpectedCalls == <<"go_start_main">> \o Iterations(options.onTick, Len(script))

\* C24: on a fresh reactor whose guest returns the tick results of a
\* script (0 and positive results, then -1), runSync and runAsync alike
\* terminate, returning normally with the -1, after having made exactly
\* the invocations ExpectedCalls, which do not depend on which of the two
\* was called.
C24_RunSyncRunAsyncAlike ==
    <>[](/\ drv["A"].op \in {"runSync", "runAsync"}
         /\ drv["A"].pc = "done"
         /\ drv["A"].outcome = "ok"
         /\ drv["A"].result = <<LoopIdle>>
         /\ drv["A"].calls = ExpectedCalls)

\* C24's case: a runAsync with a callback has ended on a script with a
\* Ready result and a timer result, and has made the invocations.
C24_Witness ==
    /\ drv["A"].op = "runAsync"
    /\ drv["A"].pc = "done"
    /\ options.onTick
    /\ Len(script) = 3
    /\ LoopReady \in {script[1], script[2]}
    /\ \E i \in 1..2 : script[i] > 0
    /\ drv["A"].calls = ExpectedCalls

====
